---- MODULE Spec2Model ----
(* A model of app.py, the Streamlit resume analyzer: the structured-result     *)
(* extractor (extract_json over the text of a model response), the score and   *)
(* rating computation, the report renderer and the script run that one click   *)
(* on "Analyze Resume" starts in a session.                                    *)
(*                                                                             *)
(* A text is a sequence of units.  A unit is one character ("{", "\"", "7",    *)
(* " ", ...) or one word, a run of letters that is never split ("ats_score",  *)
(* "prose", "SQL").  No word is a JSON literal (true, false, null, NaN,        *)
(* Infinity) and no unit is a backslash, an exponent letter or a control       *)
(* character, so the decoder below is the whole of json.loads on these texts.  *)
EXTENDS Integers, Sequences, FiniteSets, TLC

VARIABLES
    text,           \* extract_json's argument, when it is studied alone
    result,         \* what leaves extract_json for that argument
    xpc,            \* "start", "done" (or "off" when a run is studied)
    pc,             \* per session: where the script run stands
    uploaded_file,  \* per session: the file uploader's value
    jd_text,        \* per session: the text area's value
    resume_text,    \* per session: line 157
    ats,            \* per session: line 159
    score,          \* per session: line 160
    rating,         \* per session: line 162
    career,         \* per session: line 196
    shown,          \* per session: the widgets of the page, in order
    trace,          \* per session: the blocking calls of the run and what each returned
    story,          \* per session: the story generate_pdf_report built
    pdf,            \* per session: line 211, the bytes offered for download
    file            \* ATS_Report.pdf in the working directory of the server

xvars == <<text, result, xpc>>
svars == <<pc, uploaded_file, jd_text, resume_text, ats, score, rating,
           career, shown, trace, story, pdf, file>>
vars == <<text, result, xpc, pc, uploaded_file, jd_text, resume_text, ats,
          score, rating, career, shown, trace, story, pdf, file>>

-----------------------------------------------------------------------------
(* Python values, tagged.  TLC compares the fields of two records in the     *)
(* order it first met their names: tag is met first, so two values of       *)
(* different tags are told apart by their tags alone.                        *)

None == [tag |-> "none", val |-> 0]
VInt(n) == [tag |-> "int", val |-> n]
VFloat(neg, ip, fp) == [tag |-> "float", val |-> <<neg, ip, fp>>]
VStr(s) == [tag |-> "str", val |-> s]
VList(l) == [tag |-> "list", val |-> l]
VDict(d) == [tag |-> "dict", val |-> d]
\* An exception leaving the callee.
Raised == [tag |-> "raised", val |-> 0]

EmptyDict == [k \in {} |-> None]
DictSet(d, k, val) == [x \in (DOMAIN d) \cup {k} |-> IF x = k THEN val ELSE d[x]]

Quote == "\""
Digits == <<"0", "1", "2", "3", "4", "5", "6", "7", "8", "9">>
IsDigit(c) == \E i \in 1..10 : Digits[i] = c
DigitVal(c) == (CHOOSE i \in 1..10 : Digits[i] = c) - 1
IsWs(c) == c = " "

RECURSIVE DigitsToNat(_)
DigitsToNat(ds) ==
    IF ds = <<>> THEN 0
    ELSE 10 * DigitsToNat(SubSeq(ds, 1, Len(ds) - 1)) + DigitVal(ds[Len(ds)])

RECURSIVE NatToDigits(_)
NatToDigits(n) ==
    IF n < 10 THEN <<Digits[n + 1]>>
    ELSE NatToDigits(n \div 10) \o <<Digits[(n % 10) + 1]>>

\* str(n) of an int, as the f-strings of lines 87, 131 and 171 format it.
Str(n) == IF n < 0 THEN <<"-">> \o NatToDigits(-n) ELSE NatToDigits(n)

-----------------------------------------------------------------------------
(* json.loads: the decoder of the standard library, on texts of units.       *)

Fail == [ok |-> FALSE, val |-> None, pos |-> 0]
Ok(val, pos) == [ok |-> TRUE, val |-> val, pos |-> pos]

\* The first index >= i that holds no whitespace (Len(s)+1 at the end).
SkipWs(s, i) ==
    CHOOSE j \in i..(Len(s) + 1) :
        /\ j = Len(s) + 1 \/ ~IsWs(s[j])
        /\ \A k \in i..(j - 1) : IsWs(s[k])

\* The first index >= i that holds no digit (Len(s)+1 at the end).
SkipDigits(s, i) ==
    CHOOSE j \in i..(Len(s) + 1) :
        /\ j = Len(s) + 1 \/ ~IsDigit(s[j])
        /\ \A k \in i..(j - 1) : IsDigit(s[k])

\* scanstring: i is the index after the opening quote.
StringEnd(s, i, j) == Ok(VStr(SubSeq(s, i, j - 1)), j + 1)

ScanString(s, i) ==
    IF \A j \in i..Len(s) : s[j] # Quote THEN Fail
    ELSE StringEnd(s, i, CHOOSE j \in i..Len(s) :
                            s[j] = Quote /\ \A k \in i..(j - 1) : s[k] # Quote)

\* NUMBER_RE: (-?(?:0|[1-9]\d*))(\.\d+)? matched at i.  IntPart: j is the
\* index after the sign, k the index after the integer part.
FracPart(s, neg, ip, k, m) == Ok(VFloat(neg, ip, SubSeq(s, k + 1, m - 1)), m)

IntPart(s, neg, j, k) ==
    IF k + 1 <= Len(s) /\ s[k] = "." /\ IsDigit(s[k + 1])
    THEN FracPart(s, neg, DigitsToNat(SubSeq(s, j, k - 1)), k, SkipDigits(s, k + 1))
    ELSE Ok(VInt(IF neg THEN -DigitsToNat(SubSeq(s, j, k - 1))
                        ELSE DigitsToNat(SubSeq(s, j, k - 1))), k)

Signed(s, neg, j) ==
    IF j > Len(s) \/ ~IsDigit(s[j]) THEN Fail
    ELSE IntPart(s, neg, j, IF s[j] = "0" THEN j + 1 ELSE SkipDigits(s, j))

ScanNumber(s, i) ==
    IF i <= Len(s) /\ s[i] = "-" THEN Signed(s, TRUE, i + 1)
    ELSE Signed(s, FALSE, i)

RECURSIVE ParseValue(_, _), ParseMembers(_, _, _), ParseElems(_, _, _)

\* The member loop of JSONObject, after the comma: q is the index of the next
\* key's opening quote.
NextKey(s, q, acc) ==
    IF q > Len(s) \/ s[q] # Quote THEN Fail ELSE ParseMembers(s, q + 1, acc)

\* After a member's value: e is the index of "}" or ",".
AfterMember(s, e, acc) ==
    IF e > Len(s) THEN Fail
    ELSE IF s[e] = "}" THEN Ok(VDict(acc), e + 1)
    ELSE IF s[e] # "," THEN Fail
    ELSE NextKey(s, SkipWs(s, e + 1), acc)

\* pairs_append((key, value)); a repeated key keeps its last value.
MemberValue(s, key, val, acc) ==
    IF ~val.ok THEN Fail
    ELSE AfterMember(s, SkipWs(s, val.pos), DictSet(acc, key.val.val, val.val))

\* After a key: c is the index of ":".
MemberColon(s, key, c, acc) ==
    IF c > Len(s) \/ s[c] # ":" THEN Fail
    ELSE MemberValue(s, key, ParseValue(s, SkipWs(s, c + 1)), acc)

MemberKey(s, key, acc) ==
    IF ~key.ok THEN Fail ELSE MemberColon(s, key, SkipWs(s, key.pos), acc)

\* The member loop of JSONObject: i is the index after a key's opening quote.
ParseMembers(s, i, acc) == MemberKey(s, ScanString(s, i), acc)

\* JSONObject: j is the first index after "{" that holds no whitespace.
ObjectBody(s, j) ==
    IF j > Len(s) THEN Fail
    ELSE IF s[j] = "}" THEN Ok(VDict(EmptyDict), j + 1)
    ELSE IF s[j] # Quote THEN Fail
    ELSE ParseMembers(s, j + 1, EmptyDict)

ParseObject(s, i) == ObjectBody(s, SkipWs(s, i))

\* After an element: e is the index of "]" or ",".
AfterElem(s, e, acc) ==
    IF e > Len(s) THEN Fail
    ELSE IF s[e] = "]" THEN Ok(VList(acc), e + 1)
    ELSE IF s[e] # "," THEN Fail
    ELSE ParseElems(s, SkipWs(s, e + 1), acc)

ElemValue(s, val, acc) ==
    IF ~val.ok THEN Fail
    ELSE AfterElem(s, SkipWs(s, val.pos), Append(acc, val.val))

\* The element loop of JSONArray: i is the index of an element's first unit.
ParseElems(s, i, acc) == ElemValue(s, ParseValue(s, i), acc)

\* JSONArray: j is the first index after "[" that holds no whitespace.
ArrayBody(s, j) ==
    IF j > Len(s) THEN Fail
    ELSE IF s[j] = "]" THEN Ok(VList(<<>>), j + 1)
    ELSE ParseElems(s, j, <<>>)

ParseArray(s, i) == ArrayBody(s, SkipWs(s, i))

\* scan_once: the value that starts at i.
ParseValue(s, i) ==
    IF i > Len(s) THEN Fail
    ELSE IF s[i] = Quote THEN ScanString(s, i + 1)
    ELSE IF s[i] = "{" THEN ParseObject(s, i + 1)
    ELSE IF s[i] = "[" THEN ParseArray(s, i + 1)
    ELSE ScanNumber(s, i)

\* raw_decode, then the check that only whitespace follows.
Decoded(s, r) ==
    IF r.ok /\ SkipWs(s, r.pos) = Len(s) + 1 THEN r.val ELSE Raised

\* json.loads(s): one value, whitespace around it, nothing else; or it raises.
json_loads(s) == Decoded(s, ParseValue(s, SkipWs(s, 1)))

-----------------------------------------------------------------------------
(* extract_json, lines 22-27.                                                *)

NoMatch == <<0, 0>>

\* The lazy pattern \{[\s\S]*?\}: from the first "{" to the first "}" after it.
re_search_lazy(s) ==
    IF \A i \in 1..Len(s) : s[i] # "{" \/ \A j \in (i + 1)..Len(s) : s[j] # "}"
    THEN NoMatch
    ELSE <<CHOOSE i \in 1..Len(s) : s[i] = "{" /\ \A k \in 1..(i - 1) : s[k] # "{",
           CHOOSE j \in 1..Len(s) :
              /\ s[j] = "}"
              /\ \E i \in 1..(j - 1) : s[i] = "{"
              /\ \A k \in 1..(j - 1) : s[k] = "}" => \A i \in 1..(k - 1) : s[i] # "{">>

\* re.search(r"\{[\s\S]*\}", text): from the first "{" to the last "}" after it.
re_search(s) ==
    IF \A i \in 1..Len(s) : s[i] # "{" \/ \A j \in (i + 1)..Len(s) : s[j] # "}"
    THEN NoMatch
    ELSE <<CHOOSE i \in 1..Len(s) : s[i] = "{" /\ \A k \in 1..(i - 1) : s[k] # "{",
           CHOOSE j \in 1..Len(s) : s[j] = "}" /\ \A k \in (j + 1)..Len(s) : s[k] # "}">>

\* match.group()
MatchGroup(s, m) == SubSeq(s, m[1], m[2])

\* json.loads(match.group()) if match else None
LoadsMatch(s, m) == IF m # NoMatch THEN json_loads(MatchGroup(s, m)) ELSE None

\* The body of the try block, lines 24-25.
extract_json_try(s) == LoadsMatch(s, re_search(s))

\* No except clause: what was raised leaves the function.
ExceptNothing(r) == r

\* Line 26: a bare except, whatever was raised becomes None.
Except(r) == IF r.tag = "raised" THEN None ELSE r

extract_json(s) == Except(extract_json_try(s))

-----------------------------------------------------------------------------
(* Python operations the script applies to the decoded record.               *)

Key(name) == <<name>>

\* dict.get(k, default)
Get(d, k, default) == IF k \in DOMAIN d THEN d[k] ELSE default

\* v or {}: None and the empty dict are falsy.
OrEmpty(v) ==
    IF v.tag = "none" \/ (v.tag = "dict" /\ DOMAIN v.val = {})
    THEN VDict(EmptyDict) ELSE v

\* str.strip(): leading and trailing whitespace removed.
Strip(s) ==
    LET keep == {i \in 1..Len(s) : ~IsWs(s[i])}
    IN  IF keep = {} THEN <<>>
        ELSE SubSeq(s, CHOOSE i \in keep : \A k \in keep : i <= k,
                       CHOOSE i \in keep : \A k \in keep : i >= k)

\* int(v): an int is kept, a float is truncated towards zero, a string is
\* parsed as a decimal literal (ValueError otherwise), anything else is a
\* TypeError.
PyInt(v) ==
    CASE v.tag = "int" -> v
      [] v.tag = "float" -> VInt(IF v.val[1] THEN -(v.val[2]) ELSE v.val[2])
      [] v.tag = "str" ->
            LET s == Strip(v.val)
                neg == s # <<>> /\ s[1] = "-"
                ds == IF neg THEN Tail(s) ELSE s
            IN  IF ds # <<>> /\ \A i \in 1..Len(ds) : IsDigit(ds[i])
                THEN VInt(IF neg THEN -DigitsToNat(ds) ELSE DigitsToNat(ds))
                ELSE Raised
      [] OTHER -> Raised

Min(a, b) == IF a <= b THEN a ELSE b
Max(a, b) == IF a >= b THEN a ELSE b

\* Line 160 without its max(0, ...).
ClampNoFloor(n) == IF n.tag = "raised" THEN Raised ELSE VInt(IF n.val <= 100 THEN n.val ELSE 100)

clamp_score_no_floor(a) ==
    IF a.tag # "dict" THEN Raised
    ELSE ClampNoFloor(PyInt(Get(a.val, Key("ats_score"), VInt(0))))

\* max(0, min(100, n)), or the exception int() raised.
Clamp(n) == IF n.tag = "raised" THEN Raised ELSE VInt(Max(0, Min(100, n.val)))

\* Line 160: max(0, min(100, int(ats.get("ats_score",0)))); ats.get raises on
\* a value that is no dict, int() on a value it cannot convert.
clamp_score(a) ==
    IF a.tag # "dict" THEN Raised
    ELSE Clamp(PyInt(Get(a.val, Key("ats_score"), VInt(0))))

\* Lines 162-167 with > for the first >=.
rating_of_strict(sc) ==
    IF sc > 85 THEN "Excellent Match"
    ELSE IF sc >= 70 THEN "Strong Match"
    ELSE IF sc >= 50 THEN "Average Match"
    ELSE "Weak Match"

\* Lines 162-167 (the emoji before each label is left out).
rating_of(sc) ==
    IF sc >= 85 THEN "Excellent Match"
    ELSE IF sc >= 70 THEN "Strong Match"
    ELSE IF sc >= 50 THEN "Average Match"
    ELSE "Weak Match"

\* "for x in v": the items, or a TypeError for a value that is not iterable.
\* A string yields one item per unit; the responses of this model hold no
\* string and no object where the script iterates.
Iter(v) ==
    CASE v.tag = "list" -> [ok |-> TRUE, items |-> v.val]
      [] v.tag = "str" -> [ok |-> TRUE, items |-> [i \in 1..Len(v.val) |-> VStr(<<v.val[i]>>)]]
      [] v.tag \in {"int", "float", "none"} -> [ok |-> FALSE, items |-> <<>>]

RECURSIVE JoinItems(_)
JoinItems(items) ==
    IF items = <<>> THEN <<>>
    ELSE IF Len(items) = 1 THEN items[1].val
    ELSE items[1].val \o <<", ">> \o JoinItems(Tail(items))

\* ", ".join(v): a TypeError unless v is an iterable of strings.
Join(v) ==
    LET it == Iter(v)
    IN  IF it.ok /\ \A i \in 1..Len(it.items) : it.items[i].tag = "str"
        THEN VStr(JoinItems(it.items))
        ELSE Raised

\* The fractional digits without their trailing zeros.
RECURSIVE StripZeros(_)
StripZeros(ds) ==
    IF ds # <<>> /\ ds[Len(ds)] = "0" THEN StripZeros(SubSeq(ds, 1, Len(ds) - 1))
    ELSE ds

\* str(v) inside an f-string, for the numbers and strings of the record.
Format(v) ==
    CASE v.tag = "int" -> Str(v.val)
      [] v.tag = "str" -> v.val
      [] v.tag = "float" ->
            (IF v.val[1] THEN <<"-">> ELSE <<>>) \o NatToDigits(v.val[2]) \o <<".">>
            \o (IF StripZeros(v.val[3]) = <<>> THEN <<"0">> ELSE StripZeros(v.val[3]))

-----------------------------------------------------------------------------
(* The widgets a run puts on the page, and the script's statements between   *)
(* two blocking calls as a list of steps that stops at the first exception.  *)

W(kind, body) == [w |-> kind, body |-> body]
Label(kind, words) == W(kind, VStr(<<words>>))

Step(ws) == [ok |-> TRUE, ws |-> ws]
Throw == [ok |-> FALSE, ws |-> <<>>]

\* for x in v: st.<kind>(x)
Each(kind, v) ==
    LET it == Iter(v)
    IN  IF it.ok THEN Step([i \in 1..Len(it.items) |-> W(kind, it.items[i])])
        ELSE Throw

\* st.<kind>(prefix + ", ".join(v))
Joined(kind, prefix, v) ==
    LET j == Join(v)
    IN  IF j.tag = "raised" THEN Throw ELSE Step(<<W(kind, VStr(<<prefix>> \o j.val))>>)

Completed(steps) == \A i \in 1..Len(steps) : steps[i].ok

RECURSIVE Shown(_)
\* The widgets of the steps before the first one that throws.
Shown(steps) ==
    IF steps = <<>> \/ ~steps[1].ok THEN <<>>
    ELSE steps[1].ws \o Shown(Tail(steps))

NoList == VList(<<>>)
NoText == VStr(<<>>)

\* Lines 169-171.
ScoreSteps(sc) ==
    <<Step(<<Label("subheader", "ATS Score"),
             W("progress", VInt(sc)),
             W("markdown", VStr(Str(sc) \o <<"% - ", rating_of(sc)>>))>>)>>

\* Lines 179-193.
AnalysisSteps(a) ==
    <<Step(<<Label("expander", "Skills / Missing / Strengths / Weaknesses")>>),
      Joined("success", "Skills Found: ", Get(a, Key("skills_found"), NoList)),
      Joined("error", "Missing Skills: ", Get(a, Key("skills_missing"), NoList)),
      Step(<<Label("subheader", "Strengths")>>),
      Each("success", Get(a, Key("strengths"), NoList)),
      Step(<<Label("subheader", "Weaknesses")>>),
      Each("warning", Get(a, Key("weaknesses"), NoList)),
      Step(<<Label("expander", "AI Resume Rewrite (ATS-friendly)"),
             W("text_area", Get(a, Key("resume_rewrite"), NoText)),
             W("download_button", Get(a, Key("resume_rewrite"), NoText))>>)>>

\* Lines 198-209.
CareerSteps(c) ==
    <<Step(<<Label("expander", "AI Career Fit Recommendations"),
             Label("subheader", "Recommended Roles")>>),
      Each("success", Get(c, Key("recommended_roles"), NoList)),
      Step(<<Label("subheader", "Why you fit"),
             W("info", Get(c, Key("why_fit"), NoText)),
             Label("subheader", "Skills to improve")>>),
      Each("warning", Get(c, Key("skills_to_improve"), NoList)),
      Step(<<Label("subheader", "Resume upgrade tips")>>),
      Each("info", Get(c, Key("resume_upgrade_tips"), NoList))>>

-----------------------------------------------------------------------------
(* generate_pdf_report, lines 124-142.                                       *)

Paragraph(words, style) == [style |-> style, text |-> words]
Spacer == [style |-> "Spacer", text |-> <<>>]

Sections == <<"skills_found", "skills_missing", "strengths", "weaknesses",
              "improvements">>

\* section.replace("_"," ").title()
Title(section) ==
    CASE section = "skills_found" -> "Skills Found"
      [] section = "skills_missing" -> "Skills Missing"
      [] section = "strengths" -> "Strengths"
      [] section = "weaknesses" -> "Weaknesses"
      [] section = "improvements" -> "Improvements"

\* Line 131 with the displayed score in place of the record's.
ScoreLineClamped(data) ==
    Paragraph(<<"ATS Score: ">> \o Format(clamp_score(VDict(data))) \o <<"%">>,
              "Normal")

\* Line 131.
ScoreLine(data) ==
    Paragraph(<<"ATS Score: ">> \o Format(Get(data, Key("ats_score"), VInt(0)))
              \o <<"%">>, "Normal")

\* Lines 135-138 for one section: its paragraphs, or the TypeError of line 136.
SectionStory(data, section) ==
    LET it == Iter(Get(data, Key(section), NoList))
    IN  IF ~it.ok THEN Throw
        ELSE Step(<<Paragraph(<<Title(section)>>, "Heading3")>>
                  \o [i \in 1..Len(it.items) |->
                        Paragraph(<<"- ">> \o Format(it.items[i]), "Normal")]
                  \o <<Spacer>>)

\* Lines 127-138: the story handed to doc.build.
StorySteps(data) ==
    <<Step(<<Paragraph(<<"ATS Resume Analysis Report">>, "Heading1"), Spacer,
             ScoreLine(data), Spacer>>)>>
    \o [i \in 1..Len(Sections) |-> SectionStory(data, Sections[i])]

VPdf(st) == [tag |-> "pdf", val |-> st]

-----------------------------------------------------------------------------
(* The remote calls: each operator takes what safe_groq_call did (the text   *)
(* of the completion, or Raised) and gives what leaves the function.         *)

\* Lines 61-69 without the "or {}" of line 67.
groq_full_analysis_no_or(out) ==
    IF out.tag = "raised" THEN VDict(EmptyDict) ELSE extract_json(out.val)

\* Lines 61-69: try: return extract_json(raw) or {}  except: return {}
groq_full_analysis(out) ==
    IF out.tag = "raised" THEN VDict(EmptyDict)
    ELSE LET r == extract_json(out.val)
         IN  IF r.tag = "raised" THEN VDict(EmptyDict) ELSE OrEmpty(r)

\* Line 95: no try, the exception leaves the function.
groq_ats_explanation(out) == out

\* Line 82 inside a try that answers "" on an exception.
groq_summary_caught(out) == IF out.tag = "raised" THEN VStr(<<>>) ELSE out

\* Line 82: no try, the exception leaves the function.
groq_summary(out) == out

\* Lines 113-121: try: return extract_json(raw) or {}  except: return {}
groq_career_recommendation(out) ==
    IF out.tag = "raised" THEN VDict(EmptyDict)
    ELSE LET r == extract_json(out.val)
         IN  IF r.tag = "raised" THEN VDict(EmptyDict) ELSE OrEmpty(r)

\* Line 154 with "and" for "or".
MissingBoth(uf, jd) == uf.tag = "none" /\ Strip(jd) = <<>>

\* Line 154: not uploaded_file or not jd_text.strip()
MissingInput(uf, jd) == uf.tag = "none" \/ Strip(jd) = <<>>

-----------------------------------------------------------------------------
(* The inputs.                                                               *)

Sessions == {"s1", "s2"}

Uploads == {None, [tag |-> "file", val |-> 0]}
JdTexts == {<<>>, <<" ">>, <<" ", "job description", " ">>}
ResumeText == <<"resume text">>
ExplanationText == <<"explanation">>
SummaryText == <<"summary">>

Qd(word) == <<Quote, word, Quote>>
Member(key, val) == Qd(key) \o <<":">> \o val
Obj(members) == <<"{">> \o members \o <<"}">>
Arr(word) == <<"[">> \o Qd(word) \o <<"]">>
ScoreObj(val) == Obj(Member("ats_score", val))

\* The two scenarios of the specification's section 8.
NoBraces == <<"I cannot compute this.">>
Scenario ==
    <<"Here is the result:", " ", "{">> \o Qd("ats_score") \o <<":", " ">>
    \o Str(72) \o <<",", " ">> \o Qd("skills_found") \o <<":", " ">>
    \o Arr("SQL") \o <<"}">>

\* An object followed by prose that holds an example in braces.
WrongBoundary == ScoreObj(Str(72)) \o <<" ", "e.g.", " ", "{", "example", "}">>
\* An object the response never closes.
Unclosed == <<"{">> \o Member("ats_score", Str(72))

\* A record with every field of the prompt of lines 39-51.
FullRecord(n) ==
    <<"Result:", " ">>
    \o Obj(Member("ats_score", Str(n)) \o <<",">>
           \o Member("ats_summary", Qd("fits")) \o <<",">>
           \o Member("improvements", Arr("add metrics")) \o <<",">>
           \o Member("skills_found", <<"[">> \o Qd("SQL") \o <<",">> \o Qd("Python") \o <<"]">>)
           \o <<",">>
           \o Member("skills_missing", Arr("Spark")) \o <<",">>
           \o Member("strengths", Arr("experience")) \o <<",">>
           \o Member("weaknesses", Arr("no degree")) \o <<",">>
           \o Member("resume_rewrite", Qd("rewritten resume")))

\* Responses whose fields have another type than the prompt asks for.
ScoreIsWord == ScoreObj(Qd("high"))
ScoreIsList == ScoreObj(<<"[", "]">>)
SkillsNotList == Obj(Member("skills_found", Str(5)))
SkillsNotText == Obj(Member("skills_missing", <<"[">> \o Str(5) \o <<"]">>))
StrengthsNotList == Obj(Member("strengths", Str(5)))
ImprovementsNotList == Obj(Member("improvements", Str(5)))

CareerRecord ==
    Obj(Member("recommended_roles", Arr("Data Analyst")) \o <<",">>
        \o Member("why_fit", Qd("fits")) \o <<",">>
        \o Member("skills_to_improve", Arr("Spark")) \o <<",">>
        \o Member("resume_upgrade_tips", Arr("add metrics")))
RolesNotList == Obj(Member("recommended_roles", Str(5)))

\* What the model may answer to the career prompt.
CareerResponses == {NoBraces, CareerRecord, RolesNotList}

\* What the model may answer to the analysis prompt, two sessions at work.
FullResponses ==
    {NoBraces, Scenario, ScoreObj(Str(150)), ScoreIsWord, ImprovementsNotList}

ScoreMargin == 50
ScoreRange == (0 - ScoreMargin)..(100 + ScoreMargin)
FloatSamples == {Str(0) \o <<".", "5">>, Str(72) \o <<".", "5">>,
                 Str(100) \o <<".", "0">>, Str(100) \o <<".", "5">>,
                 <<"-">> \o Str(0) \o <<".", "5">>, <<"-">> \o Str(3) \o <<".", "2", "5">>}
TextSamples == {Qd("72"), <<Quote>> \o Str(72) \o <<Quote>>,
                <<Quote, " ">> \o Str(72) \o <<Quote>>,
                <<Quote>> \o Str(150) \o <<Quote>>}

\* What the model may answer to the analysis prompt, one run studied.
RunResponses ==
    {NoBraces, Scenario, WrongBoundary, Unclosed, Obj(<<>>), Obj(<<" ">>),
     ScoreIsWord, ScoreIsList, SkillsNotList, SkillsNotText, StrengthsNotList,
     ImprovementsNotList, Obj(Member("skills_found", Arr("SQL")))}
    \cup {ScoreObj(Str(n)) : n \in ScoreRange}
    \cup {FullRecord(n) : n \in ScoreRange}
    \cup {ScoreObj(f) : f \in FloatSamples}
    \cup {ScoreObj(q) : q \in TextSamples}

-----------------------------------------------------------------------------
(* The script run of one session, cut at its blocking calls.                 *)

Entry(op, out) == [op |-> op, out |-> out]

InitSessions ==
    /\ pc = [s \in Sessions |-> "idle"]
    /\ uploaded_file = [s \in Sessions |-> None]
    /\ jd_text = [s \in Sessions |-> <<>>]
    /\ resume_text = [s \in Sessions |-> None]
    /\ ats = [s \in Sessions |-> None]
    /\ score = [s \in Sessions |-> None]
    /\ rating = [s \in Sessions |-> None]
    /\ career = [s \in Sessions |-> None]
    /\ shown = [s \in Sessions |-> <<>>]
    /\ trace = [s \in Sessions |-> <<>>]
    /\ story = [s \in Sessions |-> None]
    /\ pdf = [s \in Sessions |-> None]
    /\ file = None

\* Lines 148-157: the click on "Analyze Resume" reruns the script on a cleared
\* page; with an input missing the run ends at st.error.
Analyze(s) ==
    /\ pc[s] \in {"idle", "done", "crashed"}
    /\ \E uf \in Uploads, jd \in JdTexts :
         /\ uploaded_file' = [uploaded_file EXCEPT ![s] = uf]
         /\ jd_text' = [jd_text EXCEPT ![s] = jd]
         /\ IF MissingInput(uf, jd)
            THEN /\ shown' = [shown EXCEPT ![s] =
                       <<Label("error", "Please upload resume and job description")>>]
                 /\ pc' = [pc EXCEPT ![s] = "done"]
            ELSE /\ shown' = [shown EXCEPT ![s] = <<>>]
                 /\ pc' = [pc EXCEPT ![s] = "ocr"]
    /\ resume_text' = [resume_text EXCEPT ![s] = None]
    /\ ats' = [ats EXCEPT ![s] = None]
    /\ score' = [score EXCEPT ![s] = None]
    /\ rating' = [rating EXCEPT ![s] = None]
    /\ career' = [career EXCEPT ![s] = None]
    /\ trace' = [trace EXCEPT ![s] = <<>>]
    /\ story' = [story EXCEPT ![s] = None]
    /\ pdf' = [pdf EXCEPT ![s] = None]
    /\ UNCHANGED <<file, xvars>>

\* Line 157: extract_text_from_pdf; an exception of the OCR libraries ends the run.
Ocr(s) ==
    /\ pc[s] = "ocr"
    /\ \E out \in {Raised, VStr(ResumeText)} :
         /\ trace' = [trace EXCEPT ![s] = Append(@, Entry("ocr", out))]
         /\ IF out.tag = "raised"
            THEN /\ pc' = [pc EXCEPT ![s] = "crashed"]
                 /\ UNCHANGED resume_text
            ELSE /\ pc' = [pc EXCEPT ![s] = "full"]
                 /\ resume_text' = [resume_text EXCEPT ![s] = out]
    /\ UNCHANGED <<uploaded_file, jd_text, ats, score, rating, career, shown,
                   story, pdf, file, xvars>>

\* Lines 159-173: the analysis call, the score, the rating and their widgets.
FullAnalysis(s, responses) ==
    /\ pc[s] = "full"
    /\ \E out \in {Raised} \cup {VStr(r) : r \in responses} :
         LET a == groq_full_analysis(out)
             sc == clamp_score(a)
         IN  /\ trace' = [trace EXCEPT ![s] = Append(@, Entry("full", out))]
             /\ ats' = [ats EXCEPT ![s] = a]
             /\ IF sc.tag = "raised"
                THEN /\ pc' = [pc EXCEPT ![s] = "crashed"]
                     /\ UNCHANGED <<score, rating, shown>>
                ELSE /\ pc' = [pc EXCEPT ![s] = "explain"]
                     /\ score' = [score EXCEPT ![s] = sc]
                     /\ rating' = [rating EXCEPT ![s] = VStr(<<rating_of(sc.val)>>)]
                     /\ shown' = [shown EXCEPT ![s] =
                            @ \o Shown(ScoreSteps(sc.val))
                              \o <<Label("subheader", "ATS Score Explanation")>>]
    /\ UNCHANGED <<uploaded_file, jd_text, resume_text, career, story, pdf,
                   file, xvars>>

\* Lines 174-176: the explanation call and its widget.
Explanation(s) ==
    /\ pc[s] = "explain"
    /\ \E out \in {Raised, VStr(ExplanationText)} :
         LET r == groq_ats_explanation(out)
         IN  /\ trace' = [trace EXCEPT ![s] = Append(@, Entry("explain", out))]
             /\ IF r.tag = "raised"
                THEN /\ pc' = [pc EXCEPT ![s] = "crashed"]
                     /\ UNCHANGED shown
                ELSE /\ pc' = [pc EXCEPT ![s] = "summary"]
                     /\ shown' = [shown EXCEPT ![s] =
                            @ \o <<W("info", r), Label("subheader", "AI Summary")>>]
    /\ UNCHANGED <<uploaded_file, jd_text, resume_text, ats, score, rating,
                   career, story, pdf, file, xvars>>

\* Lines 177-193 with a summary call that is made again when it fails.
SummaryRetried(s) ==
    /\ pc[s] = "summary"
    /\ \E out \in {Raised, VStr(SummaryText)} :
         LET r == groq_summary(out)
             steps == AnalysisSteps(ats[s].val)
         IN  /\ trace' = [trace EXCEPT ![s] = Append(@, Entry("summary", out))]
             /\ IF r.tag = "raised"
                THEN /\ pc' = [pc EXCEPT ![s] =
                            IF Len(trace[s]) < 4 THEN "summary" ELSE "crashed"]
                     /\ UNCHANGED shown
                ELSE /\ pc' = [pc EXCEPT ![s] =
                            IF Completed(steps) THEN "career" ELSE "crashed"]
                     /\ shown' = [shown EXCEPT ![s] =
                            @ \o <<W("info", r)>> \o Shown(steps)]
    /\ UNCHANGED <<uploaded_file, jd_text, resume_text, ats, score, rating,
                   career, story, pdf, file, xvars>>

\* Lines 177-193: the summary call, its widget, and the widgets of the record.
Summary(s) ==
    /\ pc[s] = "summary"
    /\ \E out \in {Raised, VStr(SummaryText)} :
         LET r == groq_summary(out)
             steps == AnalysisSteps(ats[s].val)
         IN  /\ trace' = [trace EXCEPT ![s] = Append(@, Entry("summary", out))]
             /\ IF r.tag = "raised"
                THEN /\ pc' = [pc EXCEPT ![s] = "crashed"]
                     /\ UNCHANGED shown
                ELSE /\ pc' = [pc EXCEPT ![s] =
                            IF Completed(steps) THEN "career" ELSE "crashed"]
                     /\ shown' = [shown EXCEPT ![s] =
                            @ \o <<W("info", r)>> \o Shown(steps)]
    /\ UNCHANGED <<uploaded_file, jd_text, resume_text, ats, score, rating,
                   career, story, pdf, file, xvars>>

\* Lines 196-209: the career call and its widgets.
Career(s, responses) ==
    /\ pc[s] = "career"
    /\ \E out \in {Raised} \cup {VStr(r) : r \in responses} :
         LET c == groq_career_recommendation(out)
             steps == CareerSteps(c.val)
         IN  /\ trace' = [trace EXCEPT ![s] = Append(@, Entry("career", out))]
             /\ career' = [career EXCEPT ![s] = c]
             /\ pc' = [pc EXCEPT ![s] =
                    IF Completed(steps) THEN "build" ELSE "crashed"]
             /\ shown' = [shown EXCEPT ![s] = @ \o Shown(steps)]
    /\ UNCHANGED <<uploaded_file, jd_text, resume_text, ats, score, rating,
                   story, pdf, file, xvars>>

\* Lines 211, 125-140: generate_pdf_report builds the story and doc.build
\* writes it to ATS_Report.pdf.
BuildPdf(s) ==
    /\ pc[s] = "build"
    /\ LET steps == StorySteps(ats[s].val)
       IN  IF Completed(steps)
           THEN /\ trace' = [trace EXCEPT ![s] = Append(@, Entry("render", None))]
                /\ story' = [story EXCEPT ![s] = VPdf(Shown(steps))]
                /\ file' = VPdf(Shown(steps))
                /\ pc' = [pc EXCEPT ![s] = "read"]
           ELSE /\ trace' = [trace EXCEPT ![s] = Append(@, Entry("render", Raised))]
                /\ pc' = [pc EXCEPT ![s] = "crashed"]
                /\ UNCHANGED <<story, file>>
    /\ UNCHANGED <<uploaded_file, jd_text, resume_text, ats, score, rating,
                   career, shown, pdf, xvars>>

\* Lines 141-142, 211-212: the file is read back and offered for download.
ReadPdf(s) ==
    /\ pc[s] = "read"
    /\ pdf' = [pdf EXCEPT ![s] = file]
    /\ shown' = [shown EXCEPT ![s] = Append(@, W("download_button", file))]
    /\ pc' = [pc EXCEPT ![s] = "done"]
    /\ UNCHANGED <<uploaded_file, jd_text, resume_text, ats, score, rating,
                   career, trace, story, file, xvars>>

-----------------------------------------------------------------------------
(* The specifications.                                                       *)

\* The server with its sessions, each clicking Analyze as often as it likes.
Init ==
    /\ InitSessions
    /\ text = <<>> /\ result = None /\ xpc = "off"

Next ==
    \E s \in Sessions :
        \/ Analyze(s)
        \/ Ocr(s)
        \/ FullAnalysis(s, FullResponses)
        \/ Explanation(s)
        \/ Summary(s)
        \/ Career(s, CareerResponses)
        \/ BuildPdf(s)
        \/ ReadPdf(s)

Spec == Init /\ [][Next]_vars

\* One run of one session, over every response of RunResponses.
First(s) == pc[s] = "idle" /\ Analyze(s)

NextRun ==
    \/ First("s1")
    \/ Ocr("s1")
    \/ FullAnalysis("s1", RunResponses)
    \/ Explanation("s1")
    \/ Summary("s1")
    \/ Career("s1", CareerResponses)
    \/ BuildPdf("s1")
    \/ ReadPdf("s1")

SpecRun == Init /\ [][NextRun]_vars

-----------------------------------------------------------------------------
(* extract_json alone, on a response of the model: a body with text before  *)
(* and after it.                                                             *)

MaxProse == 2
ProseUnits == {"prose", "{", "}"}

RECURSIVE TextsUpTo(_)
\* The texts of at most n units of ProseUnits.
TextsUpTo(n) ==
    IF n = 0 THEN {<<>>}
    ELSE TextsUpTo(n - 1)
         \cup {Append(t, u) : t \in {x \in TextsUpTo(n - 1) : Len(x) = n - 1},
                              u \in ProseUnits}

Prose == TextsUpTo(MaxProse)

Bodies ==
    {<<>>,
     Obj(<<>>),
     ScoreObj(Str(72)),
     Obj(<<" ">> \o Member("ats_score", <<" ">> \o Str(72) \o <<" ">>)),
     Obj(Member("ats_score", Str(72)) \o <<",", " ">>
         \o Member("skills_found", Arr("SQL"))),
     Obj(Member("career", ScoreObj(Str(5)))),
     Obj(Member("why_fit", Qd("}"))),
     Obj(Member("why_fit", <<Quote, "{", "prose", "}", Quote>>)),
     Obj(Member("ats_score", Str(1)) \o <<",">> \o Member("ats_score", Str(2))),
     Unclosed,
     Obj(Member("ats_score", <<>>)),
     Obj(<<"ats_score", ":">> \o Str(72)),
     Obj(Member("ats_score", Str(72)) \o <<",">>),
     Obj(Member("skills_found", <<"[">> \o Qd("SQL"))),
     Arr("SQL"),
     Str(72)}

Responses == {pre \o body \o post : pre \in Prose, body \in Bodies, post \in Prose}

Unset == [tag |-> "unset", val |-> 0]

InitExtract ==
    /\ InitSessions
    /\ text \in Responses
    /\ result = Unset
    /\ xpc = "start"

\* The call extract_json(text): what it returns, or Raised.
Extract ==
    /\ xpc = "start"
    /\ result' = extract_json(text)
    /\ xpc' = "done"
    /\ UNCHANGED <<text, svars>>

NextExtract == Extract

SpecExtract == InitExtract /\ [][NextExtract]_vars

-----------------------------------------------------------------------------
(* The claims about extract_json.                                            *)

\* Two tagged values are the same value.
Same(a, b) == a.tag = b.tag /\ a.val = b.val

\* text[i..j] runs from a "{" to a "}" and decodes to an object.
IsObjectSpan(s, i, j) ==
    /\ i < j /\ s[i] = "{" /\ s[j] = "}"
    /\ json_loads(SubSeq(s, i, j)).tag = "dict"

ObjectSpans(s) ==
    {sp \in (1..Len(s)) \X (1..Len(s)) : IsObjectSpan(s, sp[1], sp[2])}

\* The objects of the text that lie inside no other object of it.
TopObjects(s) ==
    {sp \in ObjectSpans(s) :
        \A o \in ObjectSpans(s) : o = sp \/ ~(o[1] <= sp[1] /\ sp[2] <= o[2])}

NoOpenBefore(s, i) == \A k \in 1..(i - 1) : s[k] # "{"
NoCloseAfter(s, j) == \A k \in (j + 1)..Len(s) : s[k] # "}"

\* C1 as stated: a text that holds exactly one well-formed JSON object, with
\* any prose before and after it, is extracted to the decoding of that object.
C1_AnyProse ==
    xpc = "done" /\ Cardinality(TopObjects(text)) = 1
    => \A sp \in TopObjects(text) :
          Same(result, json_loads(SubSeq(text, sp[1], sp[2])))

\* C1 amended: a well-formed JSON object with no opening brace in the text
\* before it and no closing brace in the text after it is extracted to its
\* decoding, whatever else the prose around it holds.
C1_NoStrayBrace ==
    xpc = "done"
    => \A sp \in ObjectSpans(text) :
          NoOpenBefore(text, sp[1]) /\ NoCloseAfter(text, sp[2])
          => Same(result, json_loads(SubSeq(text, sp[1], sp[2])))

\* A record with a field was extracted from an object that has prose, braces
\* among it, on both sides.
C1_Witness ==
    /\ xpc = "done"
    /\ result.tag = "dict" /\ Key("skills_found") \in DOMAIN result.val
    /\ \E sp \in ObjectSpans(text) :
          /\ NoOpenBefore(text, sp[1]) /\ NoCloseAfter(text, sp[2])
          /\ \E k \in 1..(sp[1] - 1) : text[k] = "}"
          /\ \E k \in (sp[2] + 1)..Len(text) : text[k] = "{"

HasBrace(s) == \E i \in 1..Len(s) : s[i] \in {"{", "}"}

\* C2: extract_json never raises; it returns a record or None, and None when
\* the text has no brace or when decoding the matched span fails.
C2_NeverRaises ==
    xpc = "done"
    => /\ result.tag \in {"dict", "none"}
       /\ ~HasBrace(text) => result.tag = "none"
       /\ re_search(text) # NoMatch
          /\ json_loads(MatchGroup(text, re_search(text))).tag = "raised"
          => result.tag = "none"

\* A span was matched, its decoding raised, and None came back.
C2_Witness ==
    /\ xpc = "done"
    /\ re_search(text) # NoMatch
    /\ json_loads(MatchGroup(text, re_search(text))).tag = "raised"
    /\ result.tag = "none"

-----------------------------------------------------------------------------
(* The claims about the score, checked over the runs of SpecRun.             *)

\* The run of s has put its score on the page (lines 169-171).
ScoreShown(s) == score[s].tag = "int" /\ Len(shown[s]) >= 3

\* The number in the line st.markdown(f"{score}% - {rating}") of the page.
Displayed(s) == SubSeq(shown[s][3].body.val, 1, Len(shown[s][3].body.val) - 2)

\* The label in that line.
DisplayedRating(s) == shown[s][3].body.val[Len(shown[s][3].body.val)]

\* C3: every score in 0..100 has exactly one rating: Excellent from 85, Strong
\* from 70 to 84, Average from 50 to 69, Weak below 50.
C3_RatingOfScore ==
    \A s \in Sessions :
        ScoreShown(s)
        => /\ score[s].val \in 0..100
           /\ rating[s] = VStr(<<DisplayedRating(s)>>)
           /\ score[s].val >= 85 <=> DisplayedRating(s) = "Excellent Match"
           /\ score[s].val >= 70 /\ score[s].val < 85
              <=> DisplayedRating(s) = "Strong Match"
           /\ score[s].val >= 50 /\ score[s].val < 70
              <=> DisplayedRating(s) = "Average Match"
           /\ score[s].val < 50 <=> DisplayedRating(s) = "Weak Match"
           /\ score[s].val \in {0, 49} => DisplayedRating(s) = "Weak Match"
           /\ score[s].val \in {50, 69} => DisplayedRating(s) = "Average Match"
           /\ score[s].val \in {70, 84} => DisplayedRating(s) = "Strong Match"
           /\ score[s].val \in {85, 100} => DisplayedRating(s) = "Excellent Match"

\* The boundary 85 was rated.
C3_Witness ==
    \E s \in Sessions :
        ScoreShown(s) /\ score[s].val = 85 /\ DisplayedRating(s) = "Excellent Match"

\* The record of s holds an integer ats_score.
HasIntScore(s) ==
    /\ ats[s].tag = "dict"
    /\ Key("ats_score") \in DOMAIN ats[s].val
    /\ ats[s].val[Key("ats_score")].tag = "int"

ModelScore(s) == ats[s].val[Key("ats_score")].val

\* C4: an integer ats_score of the model is displayed clamped to 0..100: 0
\* below the range, 100 above it, unchanged inside it.
C4_DisplayedClamped ==
    \A s \in Sessions :
        HasIntScore(s)
        => /\ ScoreShown(s)
           /\ score[s].val \in 0..100
           /\ ModelScore(s) < 0 => score[s].val = 0
           /\ ModelScore(s) > 100 => score[s].val = 100
           /\ ModelScore(s) \in 0..100 => score[s].val = ModelScore(s)
           /\ shown[s][2] = W("progress", score[s])
           /\ Displayed(s) = Str(score[s].val)

\* The model answered -10 and the page shows 0.
C4_Witness ==
    \E s \in Sessions :
        HasIntScore(s) /\ ModelScore(s) = 0 - 10 /\ Displayed(s) = <<"0">>

\* The run of s has built its report.
ReportBuilt(s) == story[s].tag = "pdf"

\* The number in the score line of the report, "ATS Score: <number>%".
ReportScore(s) ==
    SubSeq(story[s].val[3].text, 2, Len(story[s].val[3].text) - 1)

\* The record's ats_score as the script reads it, 0 when absent.
RawScore(s) == Get(ats[s].val, Key("ats_score"), VInt(0))

AllZero(ds) == \A i \in 1..Len(ds) : ds[i] = "0"

\* A number of the model lies in [0,100].
InRange(v) ==
    IF v.tag = "int" THEN v.val \in 0..100
    ELSE IF v.val[1] THEN v.val[2] = 0 /\ AllZero(v.val[3])
    ELSE v.val[2] < 100 \/ (v.val[2] = 100 /\ AllZero(v.val[3]))

\* C10 as stated: the report's score equals the displayed score exactly when
\* the model's number (0 when absent) lies in [0,100].
C10_EqualIffInRange ==
    \A s \in Sessions :
        ReportBuilt(s) /\ RawScore(s).tag \in {"int", "float"}
        => (ReportScore(s) = Displayed(s) <=> InRange(RawScore(s)))

\* C10 amended: the report's score line carries the model's number (0 when
\* absent) unclamped and untruncated; it equals the displayed score exactly
\* when that number is an integer in 0..100, so a number with a fraction
\* never equals it.
C10_ReportUnclamped ==
    \A s \in Sessions :
        ReportBuilt(s)
        => /\ story[s].val[3].style = "Normal"
           /\ story[s].val[3].text[1] = "ATS Score: "
           /\ story[s].val[3].text[Len(story[s].val[3].text)] = "%"
           /\ RawScore(s).tag = "int"
              => /\ ReportScore(s) = Str(RawScore(s).val)
                 /\ ReportScore(s) = Displayed(s) <=> RawScore(s).val \in 0..100
           /\ RawScore(s).tag = "float"
              => /\ json_loads(ReportScore(s)).tag = "float"
                 /\ json_loads(ReportScore(s)).val[1] = RawScore(s).val[1]
                 /\ json_loads(ReportScore(s)).val[2] = RawScore(s).val[2]
                 /\ ReportScore(s) # Displayed(s)

\* The model answered 150: the report says 150 and the page 100.
C10_Witness ==
    \E s \in Sessions :
        /\ ReportBuilt(s)
        /\ RawScore(s) = VInt(150)
        /\ ReportScore(s) = <<"1", "5", "0">>
        /\ Displayed(s) = <<"1", "0", "0">>

-----------------------------------------------------------------------------
(* The claims about a run, checked over the sessions of Spec.                *)

Chain == <<"ocr", "full", "explain", "summary", "career", "render">>
RemoteCalls == {"full", "explain", "summary", "career"}

\* The blocking calls the run of s has made so far, in order.
Ops(s) == [i \in 1..Len(trace[s]) |-> trace[s][i].op]

IsPrefix(a, b) == Len(a) <= Len(b) /\ \A i \in 1..Len(a) : a[i] = b[i]

OnlySpaces(t) == \A i \in 1..Len(t) : t[i] = " "

\* The inputs of the last click of s lack the document or the reference text.
InputMissing(s) == uploaded_file[s].tag = "none" \/ OnlySpaces(jd_text[s])

ErrorPage == <<W("error", VStr(<<"Please upload resume and job description">>))>>

\* C5: a click with no document, or with a reference text that is empty or
\* blank, reports an error and does nothing else: no OCR, no remote call, no
\* report.
C5_MissingInputStops ==
    \A s \in Sessions :
        pc[s] # "idle" /\ InputMissing(s)
        => /\ pc[s] = "done"
           /\ shown[s] = ErrorPage
           /\ trace[s] = <<>>
           /\ resume_text[s].tag = "none" /\ ats[s].tag = "none"
           /\ career[s].tag = "none" /\ story[s].tag = "none"
           /\ pdf[s].tag = "none"

\* A click with a document and a blank reference text ended at the error.
C5_Witness ==
    \E s \in Sessions :
        /\ pc[s] = "done" /\ uploaded_file[s].tag = "file"
        /\ jd_text[s] = <<" ">> /\ shown[s] = ErrorPage

\* How many blocking calls a run has made when it stands at a place.
CallsBefore(p) ==
    CASE p = "ocr" -> 0 [] p = "full" -> 1 [] p = "explain" -> 2
      [] p = "summary" -> 3 [] p = "career" -> 4 [] p = "build" -> 5
      [] p = "read" -> 6 [] p = "done" -> 6

\* C6: a click with valid input runs OCR, the analysis call, the explanation
\* call, the summary call, the career call and the report rendering in this
\* order, each after the one before has returned, each at most once.
C6_SequentialChain ==
    \A s \in Sessions :
        /\ IsPrefix(Ops(s), Chain)
        /\ pc[s] \in {"ocr", "full", "explain", "summary", "career", "build",
                      "read", "done"} /\ ~InputMissing(s)
           => Len(trace[s]) = CallsBefore(pc[s])
        /\ pc[s] = "crashed" => Len(trace[s]) >= 1
        /\ pdf[s].tag = "pdf"
           => /\ Ops(s) = Chain
              /\ shown[s][Len(shown[s])] = W("download_button", pdf[s])

\* A run went through the whole chain.
C6_Witness ==
    \E s \in Sessions : pc[s] = "done" /\ Ops(s) = Chain /\ pdf[s].tag = "pdf"

Failed(s, i) == trace[s][i].out.tag = "raised"

\* C7 as stated: a failure of any of the four remote calls is a hard failure
\* of the run: the failed call is the last thing the run did.
C7_EveryFailureIsHard ==
    \A s \in Sessions : \A i \in 1..Len(trace[s]) :
        trace[s][i].op \in RemoteCalls /\ Failed(s, i)
        => i = Len(trace[s]) /\ pc[s] = "crashed"

EmptyRecord(v) == v.tag = "dict" /\ DOMAIN v.val = {}

\* C7 amended: a failure of the explanation call or of the summary call is
\* uncaught: it ends the run, nothing is shown in its place and no later
\* step runs.  A failure of the analysis call or of the career call is caught
\* inside the call: the empty record takes the place of the result and the
\* run goes on to the next step.
C7_UncaughtOrEmptied ==
    \A s \in Sessions : \A i \in 1..Len(trace[s]) :
        Failed(s, i)
        => /\ trace[s][i].op \in {"explain", "summary"}
              => /\ i = Len(trace[s]) /\ pc[s] = "crashed"
                 /\ shown[s][Len(shown[s])].w = "subheader"
                 /\ career[s].tag = "none" /\ story[s].tag = "none"
           /\ trace[s][i].op = "full"
              => /\ EmptyRecord(ats[s]) /\ score[s] = VInt(0)
                 /\ i = Len(trace[s]) => pc[s] = "explain"
           /\ trace[s][i].op = "career"
              => /\ EmptyRecord(career[s])
                 /\ i = Len(trace[s]) => pc[s] = "build"

\* The analysis call failed and the run still offered its report.
C7_Witness ==
    \E s \in Sessions :
        /\ pc[s] = "done" /\ pdf[s].tag = "pdf"
        /\ Failed(s, 2) /\ trace[s][2].op = "full"

\* The response holds no object extract_json can decode.
Unparseable(out) == out.tag = "str" /\ extract_json(out.val).tag = "none"

\* The page of a run whose two records are empty, with its download.
EmptyPage(download) ==
    <<W("subheader", VStr(<<"ATS Score">>)),
      W("progress", VInt(0)),
      W("markdown", VStr(<<"0", "% - ", "Weak Match">>)),
      W("subheader", VStr(<<"ATS Score Explanation">>)),
      W("info", VStr(ExplanationText)),
      W("subheader", VStr(<<"AI Summary">>)),
      W("info", VStr(SummaryText)),
      W("expander", VStr(<<"Skills / Missing / Strengths / Weaknesses">>)),
      W("success", VStr(<<"Skills Found: ">>)),
      W("error", VStr(<<"Missing Skills: ">>)),
      W("subheader", VStr(<<"Strengths">>)),
      W("subheader", VStr(<<"Weaknesses">>)),
      W("expander", VStr(<<"AI Resume Rewrite (ATS-friendly)">>)),
      W("text_area", VStr(<<>>)),
      W("download_button", VStr(<<>>)),
      W("expander", VStr(<<"AI Career Fit Recommendations">>)),
      W("subheader", VStr(<<"Recommended Roles">>)),
      W("subheader", VStr(<<"Why you fit">>)),
      W("info", VStr(<<>>)),
      W("subheader", VStr(<<"Skills to improve">>)),
      W("subheader", VStr(<<"Resume upgrade tips">>)),
      W("download_button", download)>>

\* The report of an empty record: the score 0 and five sections without items.
EmptyReport ==
    <<[style |-> "Heading1", text |-> <<"ATS Resume Analysis Report">>],
      [style |-> "Spacer", text |-> <<>>],
      [style |-> "Normal", text |-> <<"ATS Score: ", "0", "%">>],
      [style |-> "Spacer", text |-> <<>>],
      [style |-> "Heading3", text |-> <<"Skills Found">>],
      [style |-> "Spacer", text |-> <<>>],
      [style |-> "Heading3", text |-> <<"Skills Missing">>],
      [style |-> "Spacer", text |-> <<>>],
      [style |-> "Heading3", text |-> <<"Strengths">>],
      [style |-> "Spacer", text |-> <<>>],
      [style |-> "Heading3", text |-> <<"Weaknesses">>],
      [style |-> "Spacer", text |-> <<>>],
      [style |-> "Heading3", text |-> <<"Improvements">>],
      [style |-> "Spacer", text |-> <<>>]>>

\* The widgets of the page of s.
Widgets(s) == {shown[s][i] : i \in 1..Len(shown[s])}

\* C8: a response without a decodable object gives the caller the empty
\* record; an absent field is read as 0, "" or [] where it is used; with an
\* empty analysis record the score is 0 and the rating Weak, the run ends
\* only where an explanation or summary call fails (or on what the career
\* record holds), and with both records empty it completes with every list
\* display empty.
C8_EmptyRecordRenders ==
    \A s \in Sessions :
        /\ \A i \in 1..Len(trace[s]) :
              /\ trace[s][i].op = "full" /\ Unparseable(trace[s][i].out)
                 => EmptyRecord(ats[s])
              /\ trace[s][i].op = "career" /\ Unparseable(trace[s][i].out)
                 => EmptyRecord(career[s])
        /\ EmptyRecord(ats[s])
           => /\ score[s] = VInt(0) /\ rating[s] = VStr(<<"Weak Match">>)
              /\ pc[s] # "idle"
              /\ pc[s] = "crashed"
                 => \/ /\ Failed(s, Len(trace[s]))
                       /\ trace[s][Len(trace[s])].op \in {"explain", "summary"}
                    \/ career[s].tag = "dict" /\ ~EmptyRecord(career[s])
              /\ pc[s] = "done" /\ EmptyRecord(career[s])
                 => /\ shown[s] = EmptyPage(pdf[s])
                    /\ story[s] = VPdf(EmptyReport)
        /\ ats[s].tag = "dict" /\ pc[s] \in {"career", "build", "read", "done"}
           => /\ Key("skills_found") \notin DOMAIN ats[s].val
                 => W("success", VStr(<<"Skills Found: ">>)) \in Widgets(s)
              /\ Key("skills_missing") \notin DOMAIN ats[s].val
                 => W("error", VStr(<<"Missing Skills: ">>)) \in Widgets(s)
              /\ Key("resume_rewrite") \notin DOMAIN ats[s].val
                 => W("text_area", VStr(<<>>)) \in Widgets(s)
              /\ Key("ats_score") \notin DOMAIN ats[s].val => score[s] = VInt(0)

\* Both responses were prose without braces and the run completed.
C8_Witness ==
    \E s \in Sessions :
        /\ pc[s] = "done" /\ Len(trace[s]) = 6
        /\ trace[s][2].out = VStr(NoBraces) /\ trace[s][5].out = VStr(NoBraces)
        /\ shown[s] = EmptyPage(pdf[s])

\* C9: the report a session offers for download is the one rendered from its
\* own record, whatever the other sessions do meanwhile.
C9_OwnReport ==
    \A s \in Sessions :
        pdf[s].tag = "pdf" => story[s].tag = "pdf" /\ pdf[s].val = story[s].val

====
